---------------------------- MODULE Spec2Model ----------------------------
(***************************************************************************)
(* Model of the VirusTotal lookup service (virustotal_service/__init__.py) *)
(* VirusTotalService.run: the key check, the fetch / upload / wait /       *)
(* re-fetch workflow and the per-kind normalization of a report into       *)
(* results (findings), with the values of the JSON report modelled as      *)
(* tagged Python values so that truthiness, default-on-missing lookups and *)
(* the exceptions of subscripting and formatting are those of the code.    *)
(***************************************************************************)
EXTENDS Integers, Sequences, FiniteSets, TLC

(***************************************************************************)
(* Bounds of the model.                                                    *)
(***************************************************************************)
\* largest configured vt_wait_for_processing (minutes)
MaxWait == 1
\* number of entries of each list section of the full report
MaxEntries == 2

(***************************************************************************)
(* Python values: None, bool, int, str, list, dict and a binary payload.   *)
(***************************************************************************)
PyNone == [t |-> "none"]
PyBool(b) == [t |-> "bool", v |-> b]
PyInt(n) == [t |-> "int", v |-> n]
PyStr(s) == [t |-> "str", v |-> s]
PyList(s) == [t |-> "list", v |-> s]
PyDict(f) == [t |-> "dict", v |-> f]
PyFalse == PyBool(FALSE)
PyTrue == PyBool(TRUE)
EmptyDict == PyDict(<<>>)
EmptyList == PyList(<<>>)

IsDict(x) == x.t = "dict"
IsList(x) == x.t = "list"
IsInt(x) == x.t = "int"
IsStr(x) == x.t = "str"

\* Python truth value testing ("if x:", "not x")
Truthy(x) ==
    CASE x.t = "none" -> FALSE
      [] x.t = "bool" -> x.v
      [] x.t = "int" -> x.v # 0
      [] x.t = "str" -> x.v # ""
      [] x.t = "list" -> Len(x.v) > 0
      [] x.t = "dict" -> DOMAIN x.v # {}
      [] OTHER -> TRUE

\* d.get(k, default) on a dict d
Get(d, k, default) == IF k \in DOMAIN d.v THEN d.v[k] ELSE default

\* k in d
HasKey(d, k) == IsDict(d) /\ k \in DOMAIN d.v

\* str(x) / "%s" % x for the scalar values the reports hold
StrOf(x) ==
    CASE x.t = "none" -> "None"
      [] x.t = "str" -> x.v
      [] x.t = "int" -> ToString(x.v)
      [] x.t = "bool" -> IF x.v THEN "True" ELSE "False"
      [] x.t = "list" -> IF Len(x.v) = 0 THEN "[]" ELSE "[...]"
      [] x.t = "dict" -> IF DOMAIN x.v = {} THEN "{}" ELSE "{...}"
      [] OTHER -> "<object>"

\* "\n".join(msgs)
RECURSIVE Join(_)
Join(msgs) ==
    IF Len(msgs) = 0 THEN ""
    ELSE IF Len(msgs) = 1 THEN msgs[1]
    ELSE msgs[1] \o "\n" \o Join(Tail(msgs))

\* the exceptions of the code's lookups and conversions
KeyError(k) == "KeyError: '" \o k \o "'"
NoGet == "AttributeError: object has no attribute 'get'"
NotIterable == "TypeError: object is not iterable"
NotSubscriptable == "TypeError: object has no attribute '__getitem__'"
NotANumber == "TypeError: %d format: a number is required"
NoProcessDomain == "AttributeError: 'VirusTotalService' object has no attribute '_process_domain'"

\* a mapping without key k
Remove(f, k) == [j \in DOMAIN f \ {k} |-> f[j]]

\* the orders in which a set of keys can be enumerated
RECURSIVE Orders(_)
Orders(S) ==
    IF S = {} THEN {<<>>}
    ELSE UNION {{<<k>> \o o : o \in Orders(S \ {k})} : k \in S}


(***************************************************************************)
(* Reports.  A report is the decoded JSON mapping VirusTotal answers with. *)
(* The full reports below carry every key the code reads; the reports a    *)
(* fetch may return are the full reports and every report that differs     *)
(* from one of them in one place: a key removed, a value null, or a value  *)
(* empty ("" / 0 / [] / {}).                                               *)
(***************************************************************************)
Idx == 1..MaxEntries
Name(prefix, i) == prefix \o ToString(i)

\* the engines of the scans mapping of the full report
Engines == {"Engine1", "Engine2"}

ScanEntry(engine) ==
    PyDict([detected |-> PyTrue, version |-> PyStr("1.0"),
            result |-> PyStr("Trojan." \o engine), update |-> PyStr("20150101")])

Exiftool ==
    PyDict([CompanyName |-> PyStr("ACME"), ProductName |-> PyStr("Tool"),
            ProductVersionNumber |-> PyStr("1.2"), FileVersionNumber |-> PyStr("1.2.0"),
            FileDescription |-> PyStr("A tool"), InternalName |-> PyStr("tool.exe")])

Sigcheck ==
    PyDict(("copyright" :> PyStr("(c) ACME")) @@ ("description" :> PyStr("A tool"))
        @@ ("file version" :> PyStr("1.2.0")) @@ ("internal name" :> PyStr("tool"))
        @@ ("original name" :> PyStr("tool.exe")) @@ ("product" :> PyStr("Tool"))
        @@ ("link date" :> PyStr("2014-12-31")) @@ ("publisher" :> PyStr("ACME Inc"))
        @@ ("signers" :> PyStr("ACME CA")) @@ ("signing date" :> PyStr("2015-01-01")))

DnsEntry(i, withHostname) ==
    IF withHostname
    THEN PyDict([hostname |-> PyStr(Name("host", i)), ip |-> PyStr(Name("10.0.0.", i))])
    ELSE PyDict([ip |-> PyStr(Name("10.0.0.", i))])

HttpEntry(i) ==
    PyDict(("method" :> PyStr("GET")) @@ ("user-agent" :> PyStr("agent"))
        @@ ("url" :> PyStr(Name("http://u", i))))

HookEntry(i) ==
    PyDict([method |-> PyStr("SetWindowsHook"), success |-> PyTrue,
            type |-> PyStr(Name("hook", i))])

Network(withHostname) ==
    PyDict([dns |-> PyList([i \in Idx |-> DnsEntry(i, withHostname)]),
            http |-> PyList([i \in Idx |-> HttpEntry(i)]),
            tcp |-> PyList([i \in Idx |-> PyStr(Name("10.0.1.", i))]),
            udp |-> PyList([i \in Idx |-> PyStr(Name("10.0.2.", i))])])

Behaviour(withHostname) ==
    PyDict([network |-> Network(withHostname),
            extra |-> PyList([i \in Idx |-> PyStr(Name("flag", i))]),
            hooking |-> PyList([i \in Idx |-> HookEntry(i)])])

AdditionalInfo(withHostname) ==
    PyDict(("exiftool" :> Exiftool) @@ ("sigcheck" :> Sigcheck)
        @@ ("pe-resource-langs" :> PyDict([ENGLISH |-> PyInt(1)]))
        @@ ("behaviour-v1" :> Behaviour(withHostname)))

ReportSha1 == PyStr("sha1-of-report")
ReportSha256 == PyStr("sha256-of-report")

FullSampleReport(withHostname) ==
    PyDict([response_code |-> PyInt(1), verbose_msg |-> PyStr("Scan finished"),
            sha1 |-> ReportSha1, sha256 |-> ReportSha256,
            scan_date |-> PyStr("2015-01-01 00:00:00"),
            positives |-> PyInt(3), total |-> PyInt(57),
            permalink |-> PyStr("https://www.virustotal.com/file/x/analysis/"),
            scans |-> PyDict([e \in Engines |-> ScanEntry(e)]),
            additional_info |-> AdditionalInfo(withHostname),
            first_seen |-> PyStr("2014-12-01"), last_seen |-> PyStr("2015-01-01"),
            times_submitted |-> PyInt(4), unique_sources |-> PyInt(2),
            scan_id |-> PyStr("scan-1"),
            submission_names |-> PyList([i \in Idx |-> PyStr(Name("name", i))]),
            community_reputation |-> PyInt(-5), harmless_votes |-> PyInt(1),
            malicious_votes |-> PyInt(7)])

UrlEntry(i) ==
    PyDict([url |-> PyStr(Name("http://x", i)), scan_date |-> PyStr("d"),
            total |-> PyInt(10), positives |-> PyInt(2)])

SampleEntry(i) ==
    PyDict([sha256 |-> PyStr(Name("sample", i)), date |-> PyStr("d"),
            total |-> PyInt(10), positives |-> PyInt(2)])

SampleLists ==
    [detected_communicating_samples |-> PyList([i \in Idx |-> SampleEntry(i)]),
     undetected_communicating_samples |-> PyList([i \in Idx |-> SampleEntry(i)]),
     detected_downloaded_samples |-> PyList([i \in Idx |-> SampleEntry(i)]),
     undetected_downloaded_samples |-> PyList([i \in Idx |-> SampleEntry(i)])]

FullDomainReport ==
    PyDict([response_code |-> PyInt(1),
            detected_urls |-> PyList([i \in Idx |-> UrlEntry(i)]),
            resolutions |-> PyList([i \in Idx |->
                PyDict([last_resolved |-> PyStr("d"), ip_address |-> PyStr(Name("10.0.3.", i))])]),
            categories |-> PyList([i \in Idx |-> PyStr(Name("category", i))])]
           @@ SampleLists)

FullIpReport ==
    PyDict([response_code |-> PyInt(1),
            detected_urls |-> PyList([i \in Idx |-> UrlEntry(i)]),
            resolutions |-> PyList([i \in Idx |->
                PyDict([last_resolved |-> PyStr("d"), hostname |-> PyStr(Name("host", i))])])]
           @@ SampleLists)

\* the keys whose value is varied; the other keys of the full reports (fields
\* the code copies with the same default-on-missing lookup as a varied one)
\* stay as they are
VariedKeys ==
    {"verbose_msg", "sha1", "sha256", "scan_date", "positives", "total",
     "permalink", "scans", "additional_info", "submission_names",
     "malicious_votes", "result", "exiftool", "ProductName",
     "sigcheck", "publisher", "pe-resource-langs", "ENGLISH", "behaviour-v1", "network", "dns",
     "http", "tcp", "udp", "extra", "hooking", "ip", "url", "type",
     "detected_urls", "resolutions", "categories", "ip_address", "hostname",
     "detected_communicating_samples", "undetected_communicating_samples",
     "detected_downloaded_samples", "undetected_downloaded_samples"}
    \cup Engines

\* the values that differ from x in one place: a varied key removed, or a value
\* null, or a list or mapping empty; of a list's entries the last one is varied
RECURSIVE Variants(_)
Variants(x) ==
    CASE x.t = "dict" ->
            LET keys == DOMAIN x.v \cap VariedKeys
            IN {PyNone, EmptyDict}
               \cup {PyDict(Remove(x.v, k)) : k \in keys}
               \cup UNION {{PyDict([x.v EXCEPT ![k] = y]) : y \in Variants(x.v[k])} : k \in keys}
      [] x.t = "list" ->
            {PyNone, EmptyList}
            \cup {PyList([x.v EXCEPT ![Len(x.v)] = y]) : y \in Variants(x.v[Len(x.v)])}
      [] OTHER -> {PyNone}

\* a report with the response code rc
WithCode(report, rc) == PyDict([report.v EXCEPT !["response_code"] = rc])

\* the full sample report with a hostname in the DNS entries H
SampleReportWithHostnames(H) ==
    LET full == FullSampleReport(FALSE)
        ai == full.v["additional_info"]
        bh == ai.v["behaviour-v1"]
        nw == bh.v["network"]
        nw2 == PyDict([nw.v EXCEPT !["dns"] = PyList([i \in Idx |-> DnsEntry(i, i \in H)])])
        bh2 == PyDict([bh.v EXCEPT !["network"] = nw2])
        ai2 == PyDict([ai.v EXCEPT !["behaviour-v1"] = bh2])
    IN PyDict([full.v EXCEPT !["additional_info"] = ai2])

\* the full sample report with neither 'positives' nor 'total'
SampleReportWithoutCounts ==
    PyDict(Remove(Remove(FullSampleReport(FALSE).v, "positives"), "total"))

\* the ready reports of each kind
ReadySampleReports ==
    ({FullSampleReport(FALSE), SampleReportWithoutCounts} \cup Variants(FullSampleReport(FALSE))
        \cup {SampleReportWithHostnames(H) : H \in SUBSET Idx \ {{}}}) \ {PyNone, EmptyDict}
ReadyDomainReports == ({FullDomainReport} \cup Variants(FullDomainReport)) \ {PyNone, EmptyDict}
ReadyIpReports == ({FullIpReport} \cup Variants(FullIpReport)) \ {PyNone, EmptyDict}

\* the response codes of a report that is not ready: queued, unknown, another
\* code, null, and no response_code at all
NotReadyReports ==
    {PyDict([response_code |-> rc, verbose_msg |-> PyStr("not ready")]) :
        rc \in {PyInt(-2), PyInt(0), PyInt(-1), PyNone}}
    \cup {PyDict([verbose_msg |-> PyStr("not ready")])}

(***************************************************************************)
(* The service configuration (a dict) and the analysed object.             *)
(***************************************************************************)
Absent == [t |-> "absent"]

\* the dict that holds the keys of f whose value is not Absent
MkDict(f) == PyDict([k \in {j \in DOMAIN f : f[j].t # "absent"} |-> f[k]])

Configs ==
    {MkDict([vt_api_key |-> key,
             vt_api_key_private |-> PyBool(private),
             vt_add_pcap |-> PyBool(pcap),
             vt_upload_unknown_sample |-> upload,
             vt_wait_for_processing |-> PyStr(ToString(wait)),
             vt_query_url |-> PyStr("https://configured/file/report"),
             vt_domain_url |-> PyStr("https://configured/domain/report"),
             vt_ip_url |-> PyStr("https://configured/ip-address/report"),
             vt_network_url |-> PyStr("https://configured/file/network-traffic")]) :
        key \in {Absent, PyStr(""), PyStr("APIKEY")},
        private \in BOOLEAN, pcap \in BOOLEAN,
        upload \in {Absent, PyFalse, PyTrue},
        wait \in 1..MaxWait}

\* supported_types
SupportedTypes == {"Sample", "Domain", "IP"}

Objects ==
    {[kind |-> "Sample", md5 |-> "md5-of-sample", sha1 |-> s1, sha256 |-> s256,
      domain |-> "", ip |-> ""] : s1 \in {ReportSha1, PyNone}, s256 \in {ReportSha256, PyNone}}
    \cup {[kind |-> "Domain", md5 |-> "", sha1 |-> PyNone, sha256 |-> PyNone,
           domain |-> "example.com", ip |-> ""]}
    \cup {[kind |-> "IP", md5 |-> "", sha1 |-> PyNone, sha256 |-> PyNone,
           domain |-> "", ip |-> "192.0.2.1"]}

\* int(x) of the configured wait: an int as it is, a numeral string parsed
IntOf(x) ==
    IF x.t = "int" THEN x.v
    ELSE CHOOSE n \in 0..(MaxWait + 5) : ToString(n) = x.v

(***************************************************************************)
(* Answers of the remote service.                                          *)
(***************************************************************************)
ConnError == [k |-> "conn_error"]
NotJson == [k |-> "not_json"]
Json(v) == [k |-> "json", v |-> v]

\* the values a report request's JSON may decode to that are no report: an
\* empty mapping and a list
NoReports == {EmptyDict, PyList(<<PyStr("x")>>)}

\* what a report request may be answered with, per kind
SampleBodies == {ConnError, NotJson} \cup {Json(v) : v \in NoReports \cup NotReadyReports \cup ReadySampleReports}
DomainBodies == {ConnError, NotJson} \cup {Json(v) : v \in NoReports \cup NotReadyReports \cup ReadyDomainReports}
IpBodies == {ConnError, NotJson} \cup {Json(v) : v \in NoReports \cup NotReadyReports \cup ReadyIpReports}

FetchBodies(kind) ==
    CASE kind = "Sample" -> SampleBodies
      [] kind = "Domain" -> DomainBodies
      [] OTHER -> IpBodies

\* what a submission may be answered with
UploadBodies ==
    {ConnError, NotJson}
    \cup {Json(v) : v \in
            {PyList(<<PyStr("x")>>),
             PyDict([response_code |-> PyInt(1), verbose_msg |-> PyStr("Scan request successfully queued")]),
             PyDict([response_code |-> PyInt(0), verbose_msg |-> PyStr("Invalid submission")]),
             PyDict([response_code |-> PyInt(0)]),
             PyDict([verbose_msg |-> PyStr("Invalid submission")]),
             PyDict([response_code |-> PyInt(-1), verbose_msg |-> PyNone])}}

(***************************************************************************)
(* State.                                                                  *)
(***************************************************************************)
VARIABLES
    config,         \* self.config
    obj,            \* self.obj
    pc,             \* the position in run(): the call it is at, or ended at
    outcome,        \* "running", "returned" (run returned) or "raised" (an exception left run)
    exc,            \* the exception that left run, "" if none
    response_dict,  \* run's response_dict
    response,       \* run's response: the status the last normalization returned
    scandate,       \* run's scandate
    pcap,           \* run's pcap
    requests,       \* the network requests made, in order
    response_code,  \* run's response_code, Absent while it is not assigned
    uploaderCalls,  \* number of calls of _upload_sample
    sleeps,         \* the seconds of each time.sleep, in order
    results,        \* the results added with _add_result, in order
    log,            \* the messages given to _error / _info / _warning, in order
    saves,          \* number of calls of self.obj.save
    collab          \* the calls made on the host platform's handlers, in order

vars == <<config, obj, pc, outcome, exc, response_dict, response, scandate, pcap,
          requests, response_code, uploaderCalls, sleeps, results, log, saves, collab>>

Init ==
    /\ config \in Configs
    /\ obj \in Objects
    /\ pc = "run"
    /\ outcome = "running"
    /\ exc = ""
    /\ response_dict = PyNone
    /\ response = PyNone
    /\ scandate = PyNone
    /\ pcap = PyNone
    /\ requests = <<>>
    /\ response_code = Absent
    /\ uploaderCalls = 0
    /\ sleeps = <<>>
    /\ results = <<>>
    /\ log = <<>>
    /\ saves = 0
    /\ collab = <<>>

Msg(level, text) == [level |-> level, msg |-> text]

\* run is at position p
At(p) == pc = p /\ outcome = "running"

\* run returns (pc stays at the position it returned from)
Return == pc' = pc /\ outcome' = "returned" /\ exc' = exc

\* the exception e leaves run (pc stays at the position it was raised at)
Raise(e) == pc' = pc /\ outcome' = "raised" /\ exc' = e

\* run goes on at position p
Goto(p) == pc' = p /\ outcome' = outcome /\ exc' = exc

(***************************************************************************)
(* run(): configuration and the key check (lines 143-157).                 *)
(***************************************************************************)
\* (mutant) the key check as a test of presence: "if 'vt_api_key' not in config"
KeyNotConfigured(cfg) == ~HasKey(cfg, "vt_api_key")

\* "if not key" with key = config.get('vt_api_key', '')
KeyMissing(cfg) == ~Truthy(Get(cfg, "vt_api_key", PyStr("")))

\* wait_for_processing
WaitForProcessing(cfg) == IntOf(Get(cfg, "vt_wait_for_processing", PyInt(5)))

RunBegin ==
    /\ At("run")
    /\ IF KeyMissing(config)
       THEN /\ log' = Append(log, Msg("error", "No valid VT key found"))
            /\ Return
       ELSE /\ log' = log
            /\ Goto("fetch")
    /\ UNCHANGED <<config, obj, response_dict, response, scandate, pcap, requests, response_code,
                   uploaderCalls, sleeps, results, saves, collab>>

(***************************************************************************)
(* _get_sample_data (lines 253-289).                                       *)
(***************************************************************************)
ReportUrl(kind) ==
    CASE kind = "Sample" -> "https://www.virustotal.com/vtapi/v2/file/report"
      [] kind = "Domain" -> "https://www.virustotal.com/vtapi/v2/domain/report"
      [] kind = "IP" -> "https://www.virustotal.com/vtapi/v2/ip-address/report"

ReportParams(o, cfg) ==
    LET key == Get(cfg, "vt_api_key", PyStr(""))
    IN CASE o.kind = "Sample" ->
              IF Truthy(Get(cfg, "vt_api_key_private", PyFalse))
              THEN [resource |-> PyStr(o.md5), apikey |-> key, allinfo |-> PyInt(1)]
              ELSE [resource |-> PyStr(o.md5), apikey |-> key]
         [] o.kind = "Domain" -> [domain |-> PyStr(o.domain), apikey |-> key]
         [] o.kind = "IP" -> [ip |-> PyStr(o.ip), apikey |-> key]

\* the request _get_sample_data sends
ReportRequest(o, cfg) ==
    [role |-> "report", verb |-> "GET", url |-> ReportUrl(o.kind), params |-> ReportParams(o, cfg)]

\* what _get_sample_data returns when the request is answered with body
GetSampleData(body) == IF body.k = "json" THEN body.v ELSE PyFalse

\* response_dict.get('response_code', 0)
ResponseCode(d) == Get(d, "response_code", PyInt(0))

(***************************************************************************)
(* run(): the first fetch and the response code (lines 165-193).           *)
(***************************************************************************)
\* (mutant) the wait given to time.sleep as it is configured, in minutes
SleepSecondsAsMinutes(wait) == wait

\* time.sleep(float(60*wait_for_processing))
SleepSeconds(wait) == 60 * wait

WaitingMsg(wait) == "Waiting " \o ToString(wait) \o " minutes for VT processing"

\* (mutant) the branch taken when an unknown sample that is not uploaded is waited for
BranchWaitsForUnknown(code, upload_unknown_sample) ==
    IF code = PyInt(1) THEN "ready"
    ELSE IF code = PyInt(-2) THEN "queued"
    ELSE IF code = PyInt(0) THEN (IF Truthy(upload_unknown_sample) THEN "upload" ELSE "queued")
    ELSE "reject"

\* (mutant) the branch taken when "and upload_unknown_sample" is left out
BranchUploadsUnasked(code, upload_unknown_sample) ==
    IF code = PyInt(1) THEN "ready"
    ELSE IF code = PyInt(-2) THEN "queued"
    ELSE IF code = PyInt(0) THEN "upload"
    ELSE "reject"

\* (mutant) the branch taken when "if response_code != 1" is left out
BranchWithoutReadyTest(code, upload_unknown_sample) ==
    IF code = PyInt(-2) THEN "queued"
    ELSE IF code = PyInt(0) /\ Truthy(upload_unknown_sample) THEN "upload"
    ELSE "reject"

\* the branch of lines 177-193 taken for a response code
Branch(code, upload_unknown_sample) ==
    IF code = PyInt(1) THEN "ready"
    ELSE IF code = PyInt(-2) THEN "queued"
    ELSE IF code = PyInt(0) /\ Truthy(upload_unknown_sample) THEN "upload"
    ELSE "reject"

UploadUnknownSample(cfg) == Get(cfg, "vt_upload_unknown_sample", PyTrue)

FirstFetch ==
    /\ At("fetch")
    /\ \E body \in FetchBodies(obj.kind) :
        LET ret == GetSampleData(body)
            wait == WaitForProcessing(config)
        IN /\ requests' = Append(requests, ReportRequest(obj, config))
           /\ response_dict' = ret
           /\ response_code' = IF Truthy(ret) /\ IsDict(ret) THEN ResponseCode(ret) ELSE response_code
           /\ IF ~Truthy(ret)
              THEN /\ log' = Append(log, Msg("error", "Getting sample data from VT failed!"))
                   /\ sleeps' = sleeps
                   /\ Return
              ELSE IF ~IsDict(ret)
              THEN /\ UNCHANGED <<log, sleeps>>
                   /\ Raise(NoGet)
              ELSE LET branch == Branch(ResponseCode(ret), UploadUnknownSample(config))
                   IN CASE branch = "ready" ->
                             /\ UNCHANGED <<log, sleeps>>
                             /\ Goto("process")
                        [] branch = "queued" ->
                             /\ log' = Append(log, Msg("info", WaitingMsg(wait)))
                             /\ sleeps' = Append(sleeps, SleepSeconds(wait))
                             /\ Goto("refetch")
                        [] branch = "upload" ->
                             /\ UNCHANGED <<log, sleeps>>
                             /\ Goto("upload")
                        [] OTHER ->
                             /\ log' = Append(log, Msg("error",
                                   "Exiting because Virustotal provided a negative response code."))
                             /\ sleeps' = sleeps
                             /\ Return
    /\ UNCHANGED <<config, obj, response, scandate, pcap, uploaderCalls, results, saves, collab>>

(***************************************************************************)
(* _upload_sample (lines 292-326) and its call in run (lines 184-188).     *)
(***************************************************************************)
\* (mutant) a submission sent whatever the kind
UploadSupportedAnyKind(kind) == TRUE

\* the kinds _upload_sample sends a submission for
UploadSupported(kind) == kind \in {"Sample", "Domain"}

UploadRequest(o, cfg) ==
    LET key == Get(cfg, "vt_api_key", PyStr(""))
    IN IF o.kind = "Sample"
       THEN [role |-> "upload", verb |-> "POST",
             url |-> "https://www.virustotal.com/vtapi/v2/file/scan",
             params |-> [apikey |-> key]]
       ELSE [role |-> "upload", verb |-> "POST",
             url |-> "https://www.virustotal.com/vtapi/v2/url/scan",
             params |-> [apikey |-> key, url |-> PyStr(o.domain)]]

UploadFailedMsg == "Exiting because Virustotal did not know the sample AND we couldn't upload it. Msg.: "
UploadUnsupportedMsg == "Exiting because Virustotal did not know the sample AND we currently cant upload this type of sample!"

\* _upload_sample once the submission is answered with body: what it returns
\* (ret), the exception that leaves it (exc) and the error it records (errors)
UploadSample(body) ==
    IF body.k = "conn_error" THEN [exc |-> "ConnectionError", ret |-> FALSE, errors |-> <<>>]
    ELSE IF body.k = "not_json" THEN [exc |-> "ValueError: No JSON object could be decoded", ret |-> FALSE, errors |-> <<>>]
    ELSE IF ~IsDict(body.v) THEN [exc |-> NoGet, ret |-> FALSE, errors |-> <<>>]
    ELSE IF Get(body.v, "response_code", PyInt(0)) # PyInt(1)
    THEN IF ~HasKey(body.v, "verbose_msg")
         THEN [exc |-> KeyError("verbose_msg"), ret |-> FALSE, errors |-> <<>>]
         ELSE IF ~IsStr(body.v.v["verbose_msg"])
         THEN [exc |-> "TypeError: cannot concatenate 'str' and 'NoneType' objects", ret |-> FALSE, errors |-> <<>>]
         ELSE [exc |-> "", ret |-> FALSE,
               errors |-> <<Msg("error", UploadFailedMsg \o body.v.v["verbose_msg"].v)>>]
    ELSE [exc |-> "", ret |-> TRUE, errors |-> <<>>]

Upload ==
    /\ At("upload")
    /\ uploaderCalls' = uploaderCalls + 1
    /\ IF ~UploadSupported(obj.kind)
       THEN /\ log' = Append(log, Msg("error", UploadUnsupportedMsg))
            /\ UNCHANGED <<requests, sleeps>>
            /\ Return
       ELSE \E body \in UploadBodies :
            LET up == UploadSample(body)
                wait == WaitForProcessing(config)
            IN /\ requests' = Append(requests, UploadRequest(obj, config))
               /\ IF up.exc # ""
                  THEN /\ UNCHANGED <<log, sleeps>>
                       /\ Raise(up.exc)
                  ELSE IF ~up.ret
                  THEN /\ log' = log \o up.errors
                       /\ sleeps' = sleeps
                       /\ Return
                  ELSE /\ log' = Append(log, Msg("info", WaitingMsg(wait)))
                       /\ sleeps' = Append(sleeps, SleepSeconds(wait))
                       /\ Goto("fetch_after_upload")
    /\ UNCHANGED <<config, obj, response_dict, response, scandate, pcap, response_code,
                   results, saves, collab>>

(***************************************************************************)
(* run(): the fetch after the upload's wait (line 189) and the last fetch  *)
(* (lines 195-198).                                                        *)
(***************************************************************************)
FetchAfterUpload ==
    /\ At("fetch_after_upload")
    /\ \E body \in FetchBodies(obj.kind) :
        LET ret == GetSampleData(body)
        IN /\ requests' = Append(requests, ReportRequest(obj, config))
           /\ response_dict' = ret
    /\ Goto("refetch")
    /\ UNCHANGED <<config, obj, response, response_code, scandate, pcap, uploaderCalls, sleeps,
                   results, log, saves, collab>>

\* (mutant) the last test as "if not response_dict"
LastFetchFailedOnlyIfEmpty(ret) == ~Truthy(ret)

\* "if not response_dict or response_dict.get('response_code', 0) != 1" for a dict or a
\* false value (the .get of any other value raises)
LastFetchFailed(ret) == ~Truthy(ret) \/ ResponseCode(ret) # PyInt(1)

Refetch ==
    /\ At("refetch")
    /\ \E body \in FetchBodies(obj.kind) :
        LET ret == GetSampleData(body)
        IN /\ requests' = Append(requests, ReportRequest(obj, config))
           /\ response_dict' = ret
           /\ IF Truthy(ret) /\ ~IsDict(ret)
              THEN /\ log' = log
                   /\ Raise(NoGet)
              ELSE IF LastFetchFailed(ret)
              THEN /\ log' = Append(log, Msg("error", "Getting sample data from VT failed at last!"))
                   /\ Return
              ELSE /\ log' = log
                   /\ Goto("process")
    /\ UNCHANGED <<config, obj, response, response_code, scandate, pcap, uploaderCalls, sleeps,
                   results, saves, collab>>

(***************************************************************************)
(* Normalization.  Each _process_* method is an operator that gives the    *)
(* effect of the call: the exception that leaves it ("" if none), the      *)
(* results it added before that, and the soft-failure messages it          *)
(* collected.                                                              *)
(***************************************************************************)
Effect(e, res, msgs) == [exc |-> e, results |-> res, msgs |-> msgs]
Ok(res, msgs) == Effect("", res, msgs)
Raised(e) == Effect(e, <<>>, <<>>)

\* a, then b unless a raised
Then(a, b) ==
    IF a.exc # "" THEN a
    ELSE Effect(b.exc, a.results \o b.results, a.msgs \o b.msgs)

\* the effects of a sequence of steps, up to the first that raises
RECURSIVE Chain(_)
Chain(effects) ==
    IF Len(effects) = 0 THEN Ok(<<>>, <<>>)
    ELSE Then(Head(effects), Chain(Tail(effects)))

\* for item in items: Step(item)
ForEach(items, Step(_)) == Chain([i \in 1..Len(items) |-> Step(items[i])])

\* self._add_result(subtype, result, data)
Result(subtype, result, data) == [subtype |-> subtype, result |-> result, data |-> data]

\* "if section: for item in section: Step(item)  else: message"
ListSection(section, Step(_), missing) ==
    IF ~Truthy(section) THEN Ok(<<>>, <<missing>>)
    ELSE IF ~IsList(section) THEN Raised(NotIterable)
    ELSE ForEach(section.v, Step)

\* item.get(...) on an entry of a list: the entry must be a mapping
OnDict(item, body) == IF IsDict(item) THEN body ELSE Raised(NoGet)

\* (mutant) the status when the collected messages are not looked at
StatusIgnoringMessages(msgs, done) == [success |-> TRUE, message |-> done]

\* the status a _process_* method returns
Status(msgs, done) ==
    IF Len(msgs) = 0
    THEN [success |-> TRUE, message |-> done]
    ELSE [success |-> FALSE, message |-> Join(msgs)]

\* (mutant) the ratio formatted as "%d/%d"
RatioWithoutSpaces(a, b) ==
    ToString(IF a.t = "bool" THEN (IF a.v THEN 1 ELSE 0) ELSE a.v) \o "/"
        \o ToString(IF b.t = "bool" THEN (IF b.v THEN 1 ELSE 0) ELSE b.v)

\* "%d / %d" % (a, b): the numbers must be numbers
IsNumber(x) == x.t \in {"int", "bool"}
NumOf(x) == IF x.t = "bool" THEN (IF x.v THEN 1 ELSE 0) ELSE x.v
Ratio(a, b) == ToString(NumOf(a)) \o " / " \o ToString(NumOf(b))

(***************************************************************************)
(* _process_hashes (lines 329-353).                                        *)
(***************************************************************************)
\* the effect of _process_hashes(report) on the object o: the exception, the
\* object as it is left, and whether save was called
\* (mutant) the hashes set with "save = True" left out
ProcessHashesWithoutSave(o, report) ==
    IF ~HasKey(report, "sha1")
    THEN [exc |-> KeyError("sha1"), obj |-> o, saved |-> FALSE]
    ELSE IF ~HasKey(report, "sha256")
    THEN [exc |-> KeyError("sha256"), obj |-> [o EXCEPT !.sha1 = report.v["sha1"]], saved |-> FALSE]
    ELSE [exc |-> "",
          obj |-> [o EXCEPT !.sha1 = report.v["sha1"], !.sha256 = report.v["sha256"]],
          saved |-> FALSE]

ProcessHashesOf(o, report) ==
    IF ~HasKey(report, "sha1")
    THEN [exc |-> KeyError("sha1"), obj |-> o, saved |-> FALSE]
    ELSE LET o1 == [o EXCEPT !.sha1 = report.v["sha1"]]
         IN IF ~HasKey(report, "sha256")
            THEN [exc |-> KeyError("sha256"), obj |-> o1, saved |-> FALSE]
            ELSE LET o2 == [o1 EXCEPT !.sha256 = report.v["sha256"]]
                 IN [exc |-> "", obj |-> o2, saved |-> o2 # o]

(***************************************************************************)
(* _process_public_sample (lines 355-413).                                 *)
(***************************************************************************)
VerboseMsgSection(report) ==
    IF ~Truthy(Get(report, "verbose_msg", PyFalse))
    THEN Ok(<<>>, <<"No verbose message provided by VT.">>)
    ELSE Ok(<<>>, <<>>)

\* the 'stats' result
StatsResult(report) ==
    Result("stats",
           PyStr(Ratio(Get(report, "positives", PyInt(0)), Get(report, "total", PyInt(0)))),
           PyDict([scan_date |-> Get(report, "scan_date", PyStr("")),
                   positives |-> Get(report, "positives", PyInt(0)),
                   total |-> Get(report, "total", PyInt(0))]))

HeaderSection(report) ==
    IF ~(IsNumber(Get(report, "positives", PyInt(0))) /\ IsNumber(Get(report, "total", PyInt(0))))
    THEN Raised(NotANumber)
    ELSE Ok(<<StatsResult(report),
              Result("permalink", Get(report, "permalink", PyStr("No link")), PyNone)>>, <<>>)

\* the body of "for scan in scans" for the engine scan
ScanResult(scans, scan) ==
    LET entry == scans.v[scan]
    IN IF ~IsDict(entry) THEN Raised(NotSubscriptable)
       ELSE IF ~HasKey(entry, "result") THEN Raised(KeyError("result"))
       ELSE Ok(<<Result("av result",
                        IF Truthy(entry.v["result"]) THEN entry.v["result"] ELSE PyStr(""),
                        PyDict([engine |-> PyStr(scan),
                                date |-> Get(entry, "update", PyStr("")),
                                detected |-> Get(entry, "detected", PyStr("")),
                                version |-> Get(entry, "version", PyStr(""))]))>>, <<>>)

\* the scans, enumerated in the order the dict gives its keys
ScansSection(report, order) ==
    LET scans == Get(report, "scans", EmptyList)
    IN IF ~Truthy(scans) THEN Ok(<<>>, <<"Scan data not included in VT response.">>)
       ELSE IF ~IsDict(scans) THEN Raised(NotSubscriptable)
       ELSE ForEach(order, LAMBDA scan : ScanResult(scans, scan))

\* (mutant) the scans added before the header results
ProcessPublicSampleScansFirst(report, order) ==
    Then(VerboseMsgSection(report), Then(ScansSection(report, order), HeaderSection(report)))

ProcessPublicSample(report, order) ==
    Then(VerboseMsgSection(report), Then(HeaderSection(report), ScansSection(report, order)))

\* the orders a mapping section of the report may be enumerated in
KeyOrders(section) == IF IsDict(section) THEN Orders(DOMAIN section.v) ELSE {<<>>}

(***************************************************************************)
(* _process_private_sample_metadata (lines 415-491).                       *)
(***************************************************************************)
\* report.get('additional_info', {}).get(key, {}): the .get of a value that is
\* no mapping raises
AdditionalInfoOf(report) == Get(report, "additional_info", EmptyDict)

DeveloperData(exiftool) ==
    PyDict(("Product Name" :> Get(exiftool, "ProductName", PyStr("")))
        @@ ("Product Version" :> Get(exiftool, "ProductVersionNumber", PyStr("")))
        @@ ("File Version" :> Get(exiftool, "FileVersionNumber", PyStr("")))
        @@ ("File Description" :> Get(exiftool, "FileDescription", PyStr("")))
        @@ ("InternalName" :> Get(exiftool, "InternalName", PyStr(""))))

SigcheckData(sigcheck) ==
    PyDict(("Copyright" :> Get(sigcheck, "copyright", PyStr("")))
        @@ ("Description" :> Get(sigcheck, "description", PyStr("")))
        @@ ("File Version" :> Get(sigcheck, "file version", PyStr("")))
        @@ ("Internal Name" :> Get(sigcheck, "internal name", PyStr("")))
        @@ ("Original Name" :> Get(sigcheck, "original name", PyStr("")))
        @@ ("Product" :> Get(sigcheck, "product", PyStr("")))
        @@ ("Link Date" :> Get(sigcheck, "link date", PyStr("")))
        @@ ("Publisher" :> Get(sigcheck, "publisher", PyStr("")))
        @@ ("Signers" :> Get(sigcheck, "signers", PyStr("")))
        @@ ("Signing Date" :> Get(sigcheck, "signing date", PyStr(""))))

\* "for v in data.values(): if v != '': ...; break"
AnyValueSet(data) == \E k \in DOMAIN data.v : data.v[k] # PyStr("")

ExiftoolSection(ai) ==
    LET exiftool == Get(ai, "exiftool", EmptyDict)
    IN IF ~Truthy(exiftool) THEN Ok(<<>>, <<"Exiftool data not included in VT response.">>)
       ELSE IF ~IsDict(exiftool) THEN Raised(NoGet)
       ELSE IF AnyValueSet(DeveloperData(exiftool))
       THEN Ok(<<Result("Developer Metadata", Get(exiftool, "CompanyName", PyStr("")),
                        DeveloperData(exiftool))>>, <<>>)
       ELSE Ok(<<>>, <<>>)

SigcheckSection(ai) ==
    LET sigcheck == Get(ai, "sigcheck", EmptyDict)
    IN IF ~Truthy(sigcheck) THEN Ok(<<>>, <<"Signature data not included in VT response.">>)
       ELSE IF ~IsDict(sigcheck) THEN Raised(NoGet)
       ELSE IF AnyValueSet(SigcheckData(sigcheck))
       THEN Ok(<<Result("Signature Information", Get(sigcheck, "publisher", PyStr("")),
                        SigcheckData(sigcheck))>>, <<>>)
       ELSE Ok(<<>>, <<>>)

\* the PE languages, enumerated in the order the dict gives its items
PeLangSection(ai, order) ==
    LET pe_lang == Get(ai, "pe-resource-langs", EmptyDict)
    IN IF ~Truthy(pe_lang) THEN Ok(<<>>, <<"PE Language data not included in VT response.">>)
       ELSE IF ~IsDict(pe_lang) THEN Raised("AttributeError: object has no attribute 'iteritems'")
       ELSE ForEach(order, LAMBDA k :
                Ok(<<Result("Language Information", PyStr(k), PyDict([Value |-> pe_lang.v[k]]))>>, <<>>))

ProcessPrivateSampleMetadata(report, order) ==
    LET ai == AdditionalInfoOf(report)
    IN IF ~IsDict(ai) THEN Raised(NoGet)
       ELSE Then(ExiftoolSection(ai), Then(SigcheckSection(ai), PeLangSection(ai, order)))

(***************************************************************************)
(* _process_private_sample_vtmetadata (lines 493-544).                     *)
(***************************************************************************)
VtMetadata(report) ==
    PyDict(("First Seen" :> Get(report, "first_seen", PyStr("")))
        @@ ("Last Seen" :> Get(report, "last_seen", PyStr("")))
        @@ ("Times Submitted" :> Get(report, "times_submitted", PyStr("")))
        @@ ("Unique Sources" :> Get(report, "unique_sources", PyStr(""))))

VtReputation(report) ==
    PyDict(("Community Reputation" :> Get(report, "community_reputation", PyInt(0)))
        @@ ("Harmless Votes" :> Get(report, "harmless_votes", PyInt(0)))
        @@ ("Malicious Votes" :> Get(report, "malicious_votes", PyInt(0))))

SubmissionNames(report) ==
    LET names == Get(report, "submission_names", EmptyList)
    IN IF ~IsList(names) THEN Raised(NotIterable)
       ELSE ForEach(names.v, LAMBDA item :
                Ok(<<Result("VirusTotal Submission Names", item, PyNone)>>, <<>>))

ReputationResult(report) ==
    LET malicious == Get(report, "malicious_votes", PyInt(0))
        harmless == Get(report, "harmless_votes", PyInt(0))
    IN IF ~(IsNumber(malicious) /\ IsNumber(harmless)) THEN Raised(NotANumber)
       ELSE Ok(<<Result("VirusTotal Reputation", PyStr(Ratio(malicious, harmless)),
                        VtReputation(report))>>, <<>>)

ProcessPrivateSampleVtmetadata(report) ==
    LET ai == AdditionalInfoOf(report)
    IN IF ~Truthy(ai) THEN Ok(<<>>, <<"Additional information not included in VT response.">>)
       ELSE Then(Ok(<<Result("VirusTotal Timestamps", Get(report, "scan_id", PyStr("")),
                             VtMetadata(report))>>, <<>>),
                 Then(SubmissionNames(report), ReputationResult(report)))

(***************************************************************************)
(* _process_private_sample_behaviour (lines 546-644).                      *)
(***************************************************************************)
\* self._process_domain(domain, ip, scandate) (line 582): _process_domain is
\* defined at module level (line 870), not as a method of the service, so the
\* attribute lookup on self raises
ProcessDomainCall(domain, ip, date) == Raised(NoProcessDomain)

DnsStep(item, date) ==
    OnDict(item,
        LET domain == Get(item, "hostname", PyNone)
            ip == Get(item, "ip", PyNone)
        IN Then(Ok(<<Result("VirusTotal Behaviour DNS", PyStr(StrOf(domain)),
                            PyDict([IP_Address |-> PyStr(StrOf(ip))]))>>, <<>>),
                IF Truthy(domain) THEN ProcessDomainCall(domain, ip, date) ELSE Ok(<<>>, <<>>)))

HttpStep(item) ==
    OnDict(item,
        Ok(<<Result("VirusTotal Behaviour HTTP", Get(item, "url", PyStr("")),
                    PyDict(("Method" :> Get(item, "method", PyStr("")))
                        @@ ("User-agent" :> Get(item, "user-agent", PyStr("")))))>>, <<>>))

HookStep(item) ==
    OnDict(item,
        Ok(<<Result("Virus Total Hooking Detected", Get(item, "type", PyStr("")),
                    PyDict([method |-> Get(item, "method", PyStr("")),
                            success |-> Get(item, "success", PyStr(""))]))>>, <<>>))

NetworkSection(behaviour, date) ==
    LET network == Get(behaviour, "network", EmptyDict)
    IN IF ~Truthy(network) THEN Ok(<<>>, <<>>)
       ELSE IF ~IsDict(network) THEN Raised(NoGet)
       ELSE Then(ListSection(Get(network, "dns", EmptyList), LAMBDA item : DnsStep(item, date),
                             "DNS behaviour information not included in VT response."),
            Then(ListSection(Get(network, "http", EmptyList), HttpStep,
                             "HTTP behaviour information not included in VT response."),
            Then(ListSection(Get(network, "tcp", EmptyList),
                             LAMBDA item : Ok(<<Result("VirusTotal Behaviour TCP", item, PyNone)>>, <<>>),
                             "TCP behaviour information not included in VT response."),
                 ListSection(Get(network, "udp", EmptyList),
                             LAMBDA item : Ok(<<Result("VirusTotal Behaviour UDP", item, PyNone)>>, <<>>),
                             "UDP behaviour information not included in VT response."))))

ProcessPrivateSampleBehaviour(report, date) ==
    LET ai == AdditionalInfoOf(report)
    IN IF ~IsDict(ai) THEN Raised(NoGet)
       ELSE LET behaviour == Get(ai, "behaviour-v1", EmptyDict)
            IN IF ~Truthy(behaviour)
               THEN Ok(<<>>, <<"Behaviour information not included in VT response.">>)
               ELSE IF ~IsDict(behaviour) THEN Raised(NoGet)
               ELSE Then(NetworkSection(behaviour, date),
                    Then(ListSection(Get(behaviour, "extra", EmptyList),
                             LAMBDA item : Ok(<<Result("VirusTotal Behaviour Flag", item,
                                                       PyDict([VT_Flag |-> PyStr("VT_Flag")]))>>, <<>>),
                             "Behaviour flag information not included in VT response."),
                         ListSection(Get(behaviour, "hooking", EmptyList), HookStep,
                             "Hooking behaviour information not included in VT response.")))

(***************************************************************************)
(* _process_public_domain (lines 646-746) and _process_public_ip (lines    *)
(* 748-841).                                                               *)
(***************************************************************************)
UrlStep(title, item) ==
    OnDict(item,
        Ok(<<Result(title, Get(item, "url", PyStr("")),
                    PyDict([scan_date |-> Get(item, "scan_date", PyStr("")),
                            total |-> Get(item, "total", PyInt(0)),
                            positives |-> Get(item, "positives", PyInt(0))]))>>, <<>>))

ResolutionStep(title, key, item) ==
    OnDict(item,
        Ok(<<Result(title, Get(item, key, PyStr("")),
                    PyDict([last_resolved |-> Get(item, "last_resolved", PyStr(""))]))>>, <<>>))

\* the result of one entry of a sample list; nosha is the label of an entry without sha256
SampleStep(title, nosha, item) ==
    OnDict(item,
        Ok(<<Result(title, Get(item, "sha256", nosha),
                    PyDict([date |-> Get(item, "date", PyStr("")),
                            total |-> Get(item, "total", PyInt(0)),
                            positives |-> Get(item, "positives", PyInt(0))]))>>, <<>>))

SamplesSection(report, key, title, nosha, missing) ==
    ListSection(Get(report, key, EmptyList), LAMBDA item : SampleStep(title, nosha, item), missing)

ProcessPublicDomain(report) ==
    Then(ListSection(Get(report, "detected_urls", EmptyList), LAMBDA item : UrlStep("URLs", item),
                     "URL information not included in VT response."),
    Then(ListSection(Get(report, "resolutions", EmptyList),
                     LAMBDA item : ResolutionStep("A Records", "ip_address", item),
                     "Resolution information not included in VT response."),
    Then(ListSection(Get(report, "categories", EmptyList),
                     LAMBDA item : Ok(<<Result("Categories", item, EmptyDict)>>, <<>>),
                     "Category information not included in VT response."),
    Then(SamplesSection(report, "detected_communicating_samples", "Detected Communicating Samples",
                        PyInt(0), "Detected communicating sample information not included in VT response."),
    Then(SamplesSection(report, "undetected_communicating_samples", "Undetected Communicating Samples",
                        PyInt(0), "Undetected communicating sample information not included in VT response."),
    Then(SamplesSection(report, "detected_downloaded_samples", "Detected Downloaded Samples",
                        PyInt(0), "Downloaded sample information not included in VT response."),
         SamplesSection(report, "undetected_downloaded_samples", "Undetected Downloaded Samples",
                        PyInt(0), "Undetected domain sample information not included in VT response.")))))))

ProcessPublicIp(report) ==
    Then(ListSection(Get(report, "detected_urls", EmptyList), LAMBDA item : UrlStep("Detected URLs", item),
                     "Detected URL information not included in VT response."),
    Then(ListSection(Get(report, "resolutions", EmptyList),
                     LAMBDA item : ResolutionStep("Resolutions", "hostname", item),
                     "Resolution information not included in VT response."),
    Then(SamplesSection(report, "detected_communicating_samples", "Detected Communicating Samples",
                        PyStr(""), "Detected communicating sample information not included in VT response."),
    Then(SamplesSection(report, "undetected_communicating_samples", "Undetected Communicating Samples",
                        PyStr(""), "Undetected communicating sample information not included in VT response."),
    Then(SamplesSection(report, "detected_downloaded_samples", "Detected Downloaded Samples",
                        PyStr(""), "Detected downloaded sample information not included in VT response."),
         SamplesSection(report, "undetected_downloaded_samples", "Undetected Downloaded Samples",
                        PyStr(""), "Undetected downloaded sample information not included in VT response."))))))

(***************************************************************************)
(* get_pcap (lines 109-140) and _process_pcap (lines 843-868).             *)
(***************************************************************************)
\* what the network-traffic request may be answered with: no answer, or a
\* response with or without a content-type header and its content
PcapBodies ==
    {ConnError}
    \cup {[k |-> "http", ctype |-> c, content |-> PyStr("{}")] :
            c \in {Absent, PyStr("application/json"), PyStr("text/html")}}
    \cup {[k |-> "http", ctype |-> PyStr("application/cap"), content |-> PyStr(d)] :
            d \in {"", "pcap-bytes"}}

PcapRequest(o, cfg) ==
    [role |-> "pcap", verb |-> "GET", url |-> Get(cfg, "vt_network_url", PyStr("")).v,
     params |-> [apikey |-> Get(cfg, "vt_api_key", PyStr("")), hash |-> PyStr(o.md5)]]

\* get_pcap(md5) once the request is answered with body: the exception that
\* leaves it, what it returns and the messages it gives
GetPcap(md5, body) ==
    IF body.k = "conn_error"
    THEN [exc |-> "", ret |-> PyNone,
          log |-> <<Msg("error", "Network connection error checking virustotal for PCAP")>>]
    ELSE IF body.ctype.t = "absent"
    THEN [exc |-> KeyError("content-type"), ret |-> PyNone, log |-> <<>>]
    ELSE IF body.ctype = PyStr("application/cap")
    THEN [exc |-> "", ret |-> body.content,
          log |-> <<Msg("info", "Gathered PCAP file for " \o md5)>>]
    ELSE IF body.ctype = PyStr("application/json")
    THEN [exc |-> "", ret |-> PyNone,
          log |-> <<Msg("warning", "Could not fetch PCAP for hash " \o md5)>>]
    ELSE [exc |-> "", ret |-> PyNone,
          log |-> <<Msg("warning", "Could not fetch PCAP for unknown reasons")>>]

\* md5(pcap).hexdigest()
Md5Hex(content) == "md5(" \o content.v \o ")"

\* the handle_pcap_file call of _process_pcap
HandlePcapFile(o, content, date) ==
    [handler |-> "handle_pcap_file", filename |-> Md5Hex(content) \o ".pcap", data |-> content,
     description |-> "Created " \o StrOf(date), related_md5 |-> o.md5, related_type |-> "Sample",
     method |-> "virustotal_lookup", relationship |-> "Related_To"]

(***************************************************************************)
(* run(): the processing of the report (lines 200-251).                    *)
(***************************************************************************)
PrivateKey(cfg) == Truthy(Get(cfg, "vt_api_key_private", PyFalse))
PullPcap(cfg) == Truthy(Get(cfg, "vt_add_pcap", PyFalse))

\* run goes on at position p, or returns when p is "done"
GoOn(p) == IF p = "done" THEN Return ELSE Goto(p)

\* a _process_* call of run with effect eff, and "if not response['success']:
\* self._info(response['message'])" with the status st it returns
Processed(eff, st, next) ==
    /\ results' = results \o eff.results
    /\ IF eff.exc # ""
       THEN /\ Raise(eff.exc)
            /\ UNCHANGED <<response, log>>
       ELSE /\ response' = st
            /\ log' = IF st.success THEN log ELSE Append(log, Msg("info", st.message))
            /\ GoOn(next)

CallProcessHashes ==
    /\ At("process")
    /\ obj.kind = "Sample"
    /\ LET eff == ProcessHashesOf(obj, response_dict)
       IN /\ obj' = eff.obj
          /\ saves' = IF eff.saved THEN saves + 1 ELSE saves
          /\ IF eff.exc # "" THEN Raise(eff.exc) ELSE Goto("public_sample")
    /\ UNCHANGED <<config, response_dict, response, scandate, pcap, requests, response_code,
                   uploaderCalls, sleeps, results, log, collab>>

CallProcessPublicSample ==
    /\ At("public_sample")
    /\ \E order \in KeyOrders(Get(response_dict, "scans", EmptyList)) :
        LET eff == ProcessPublicSample(response_dict, order)
            st == Status(eff.msgs, "Processed Public Report Information.")
                    @@ [scandate |-> Get(response_dict, "scan_date", PyStr(""))]
        IN /\ Processed(eff, st, IF PrivateKey(config) THEN "private_metadata" ELSE "done")
           /\ scandate' = IF eff.exc # "" THEN scandate ELSE st.scandate
    /\ UNCHANGED <<config, obj, response_dict, pcap, requests, response_code, uploaderCalls, sleeps,
                   saves, collab>>

CallProcessPrivateSampleMetadata ==
    /\ At("private_metadata")
    /\ \E order \in KeyOrders(IF IsDict(AdditionalInfoOf(response_dict))
                              THEN Get(AdditionalInfoOf(response_dict), "pe-resource-langs", EmptyDict)
                              ELSE EmptyDict) :
        LET eff == ProcessPrivateSampleMetadata(response_dict, order)
        IN Processed(eff, Status(eff.msgs, "Processed private sample metadata."), "private_vtmetadata")
    /\ UNCHANGED <<config, obj, response_dict, scandate, pcap, requests, response_code, uploaderCalls,
                   sleeps, saves, collab>>

CallProcessPrivateSampleVtmetadata ==
    /\ At("private_vtmetadata")
    /\ LET eff == ProcessPrivateSampleVtmetadata(response_dict)
       IN Processed(eff, Status(eff.msgs, "Processed private sample vtmetadata."), "private_behaviour")
    /\ UNCHANGED <<config, obj, response_dict, scandate, pcap, requests, response_code, uploaderCalls,
                   sleeps, saves, collab>>

CallProcessPrivateSampleBehaviour ==
    /\ At("private_behaviour")
    /\ LET eff == ProcessPrivateSampleBehaviour(response_dict, scandate)
       IN Processed(eff, Status(eff.msgs, "Processed private sample behaviour data."),
                    IF PullPcap(config) THEN "get_pcap" ELSE "done")
    /\ UNCHANGED <<config, obj, response_dict, scandate, pcap, requests, response_code, uploaderCalls,
                   sleeps, saves, collab>>

CallGetPcap ==
    /\ At("get_pcap")
    /\ \E body \in PcapBodies :
        LET got == GetPcap(obj.md5, body)
        IN /\ requests' = Append(requests, PcapRequest(obj, config))
           /\ log' = log \o got.log
           /\ IF got.exc # ""
              THEN /\ pcap' = pcap
                   /\ Raise(got.exc)
              ELSE /\ pcap' = got.ret
                   /\ GoOn(IF Truthy(got.ret) THEN "process_pcap" ELSE "done")
    /\ UNCHANGED <<config, obj, response_dict, response, scandate, response_code, uploaderCalls,
                   sleeps, results, saves, collab>>

CallProcessPcap ==
    /\ At("process_pcap")
    /\ log' = Append(log, Msg("info", "Adding PCAP and creating relationship to " \o obj.md5))
    /\ collab' = Append(collab, HandlePcapFile(obj, pcap, scandate))
    /\ results' = Append(results, Result("pcap added", PyStr(Md5Hex(pcap)),
                                         PyDict([md5 |-> PyStr(Md5Hex(pcap))])))
    /\ Return
    /\ UNCHANGED <<config, obj, response_dict, response, scandate, pcap, requests, response_code,
                   uploaderCalls, sleeps, saves>>

CallProcessPublicDomain ==
    /\ At("process")
    /\ obj.kind = "Domain"
    /\ LET eff == ProcessPublicDomain(response_dict)
       IN Processed(eff, Status(eff.msgs, "Processed public domain information."), "done")
    /\ UNCHANGED <<config, obj, response_dict, scandate, pcap, requests, response_code, uploaderCalls,
                   sleeps, saves, collab>>

CallProcessPublicIp ==
    /\ At("process")
    /\ obj.kind = "IP"
    /\ LET eff == ProcessPublicIp(response_dict)
       IN Processed(eff, Status(eff.msgs, "Processed public ip information."), "done")
    /\ UNCHANGED <<config, obj, response_dict, scandate, pcap, requests, response_code, uploaderCalls,
                   sleeps, saves, collab>>

(***************************************************************************)
(* The run.                                                                *)
(***************************************************************************)
Next ==
    \/ RunBegin
    \/ FirstFetch
    \/ Upload
    \/ FetchAfterUpload
    \/ Refetch
    \/ CallProcessHashes
    \/ CallProcessPublicSample
    \/ CallProcessPrivateSampleMetadata
    \/ CallProcessPrivateSampleVtmetadata
    \/ CallProcessPrivateSampleBehaviour
    \/ CallGetPcap
    \/ CallProcessPcap
    \/ CallProcessPublicDomain
    \/ CallProcessPublicIp

Spec == Init /\ [][Next]_vars

(***************************************************************************)
(* The vocabulary of the properties.                                       *)
(***************************************************************************)
\* the positions of run before the report is processed
PollingPcs == {"run", "fetch", "upload", "fetch_after_upload", "refetch"}

\* the positions of the _process_* calls on the report
NormalizerPcs == {"process", "public_sample", "private_metadata", "private_vtmetadata",
                  "private_behaviour"}

RequestCount(role) == Len(SelectSeq(requests, LAMBDA r : r.role = role))

\* calls of the Fetcher (_get_sample_data) and submissions sent
FetchCount == RequestCount("report")
UploadCount == RequestCount("upload")

Ended == outcome # "running"

\* the run ended with self._error(text) as the last message
AbortedWith(text) ==
    /\ outcome = "returned"
    /\ pc \in PollingPcs
    /\ Len(log) > 0
    /\ log[Len(log)] = Msg("error", text)

\* the run ended with some error message as the last message
Aborted ==
    /\ outcome = "returned"
    /\ pc \in PollingPcs
    /\ Len(log) > 0
    /\ log[Len(log)].level = "error"

\* a _process_* call on the report has begun
NormalizerRan ==
    \/ pc \in (NormalizerPcs \ {"process"}) \cup {"get_pcap", "process_pcap"}
    \/ pc = "process" /\ Ended

\* the configured wait, in seconds
ConfiguredWaitSeconds == 60 * IntOf(config.v["vt_wait_for_processing"])

\* no host-platform collaborator was called
NoCollaboratorCall == saves = 0 /\ collab = <<>>

\* the value run holds of the last fetch is no ready report
LastFetchNotReady ==
    \/ ~Truthy(response_dict)
    \/ IsDict(response_dict) /\ Get(response_dict, "response_code", PyInt(0)) # PyInt(1)

HasResult(subtype) == \E i \in 1..Len(results) : results[i].subtype = subtype

(***************************************************************************)
(* C1.  In every run whose first report has response code -2 (queued) the  *)
(* Uploader is never called, there is exactly one sleep, of the configured *)
(* wait, and exactly one re-fetch after it (two fetches in all); when the  *)
(* re-fetch fails or its report is not ready the run aborts with an error  *)
(* and no result.                                                          *)
(***************************************************************************)
C1_QueuedThenOneRefetch ==
    response_code = PyInt(-2) =>
        /\ uploaderCalls = 0
        /\ UploadCount = 0
        /\ sleeps = <<ConfiguredWaitSeconds>>
        /\ IF At("refetch") THEN FetchCount = 1 ELSE FetchCount = 2
        /\ pc \notin {"run", "fetch", "upload", "fetch_after_upload"}
        /\ (pc = "refetch" /\ Ended /\ LastFetchNotReady =>
                /\ AbortedWith("Getting sample data from VT failed at last!")
                /\ results = <<>>)

C1_Witness ==
    /\ response_code = PyInt(-2)
    /\ pc = "refetch"
    /\ outcome = "returned"
    /\ FetchCount = 2
    /\ IsDict(response_dict) /\ Truthy(response_dict)
    /\ results = <<>>

(***************************************************************************)
(* C2.  In every run whose first report has response code 0 (unknown),     *)
(* with upload enabled and a successful upload, there is one sleep of the  *)
(* configured wait and exactly one re-fetch; no run calls the Fetcher more *)
(* than twice.                                                             *)
(***************************************************************************)
C2_AtMostTwoFetches ==
    /\ FetchCount <= 2
    /\ (/\ response_code = PyInt(0)
        /\ uploaderCalls = 1
        /\ pc \notin {"fetch", "upload"}
        => /\ sleeps = <<ConfiguredWaitSeconds>>
           /\ (pc \notin {"fetch_after_upload", "refetch"} \/ Ended => FetchCount = 2))

(***************************************************************************)
(* C3.  In every run whose first report has response code 0 while          *)
(* vt_upload_unknown_sample is off, the run aborts at once with an error:  *)
(* no Uploader call, no sleep, no re-fetch, no _process_* call, no result. *)
(***************************************************************************)
C3_UnknownNoUploadAborts ==
    (response_code = PyInt(0) /\ "vt_upload_unknown_sample" \in DOMAIN config.v
        /\ ~Truthy(config.v["vt_upload_unknown_sample"])) =>
        /\ AbortedWith("Exiting because Virustotal provided a negative response code.")
        /\ pc = "fetch"
        /\ uploaderCalls = 0
        /\ UploadCount = 0
        /\ sleeps = <<>>
        /\ FetchCount = 1
        /\ ~NormalizerRan
        /\ response = PyNone
        /\ results = <<>>

C3_Witness ==
    /\ response_code = PyInt(0)
    /\ "vt_upload_unknown_sample" \in DOMAIN config.v
    /\ config.v["vt_upload_unknown_sample"] = PyFalse
    /\ Ended
    /\ IsDict(response_dict) /\ "response_code" \notin DOMAIN response_dict.v

(***************************************************************************)
(* C4.  In every run whose first report has response code 1 (ready) the    *)
(* run goes straight to the processing of the report: no Uploader call, no *)
(* sleep, and the Fetcher is called exactly once.                          *)
(***************************************************************************)
C4_ReadyGoesToNormalizer ==
    response_code = PyInt(1) =>
        /\ uploaderCalls = 0
        /\ UploadCount = 0
        /\ sleeps = <<>>
        /\ FetchCount = 1
        /\ pc \in NormalizerPcs \cup {"get_pcap", "process_pcap"}
        /\ ~Aborted
        /\ (Ended => NormalizerRan)

C4_Witness ==
    /\ response_code = PyInt(1)
    /\ outcome = "returned"
    /\ NormalizerRan
    /\ Len(results) > 0
    /\ FetchCount = 1

(***************************************************************************)
(* C5.  For every ready report, whatever keys it has or lacks, the run     *)
(* adds at least the 'stats' result (stated for Sample objects, the only   *)
(* kind whose processing adds a 'stats' result at all).                    *)
(***************************************************************************)
C5_ReadySampleHasStats ==
    (obj.kind = "Sample" /\ Ended /\ NormalizerRan) => HasResult("stats")

(***************************************************************************)
(* C6.  Whenever the Uploader fails (the request fails, or the answer's    *)
(* response code is not 1, with or without a verbose message) the run ends *)
(* as an abort with an error message recorded, and no sleep, no re-fetch,  *)
(* no _process_* call and no result follow.                                *)
(***************************************************************************)
C6_FailedUploadAbortsWithError ==
    (pc = "upload" /\ Ended) =>
        /\ Aborted
        /\ sleeps = <<>>
        /\ FetchCount = 1
        /\ ~NormalizerRan
        /\ results = <<>>

(***************************************************************************)
(* C7.  For an IP whose report has response code 0 with upload enabled the *)
(* Uploader fails as unsupported without sending a submission and the run  *)
(* aborts with no result; submissions are only sent for Sample objects (to *)
(* file/scan) and Domain objects (to url/scan).                            *)
(***************************************************************************)
C7_NoSubmissionForIp ==
    /\ (obj.kind = "IP" /\ uploaderCalls > 0 =>
            /\ UploadCount = 0
            /\ pc = "upload"
            /\ AbortedWith("Exiting because Virustotal did not know the sample AND we currently cant upload this type of sample!")
            /\ FetchCount = 1
            /\ results = <<>>)
    /\ \A i \in 1..Len(requests) :
            requests[i].role = "upload" =>
                \/ obj.kind = "Sample" /\ requests[i].url = "https://www.virustotal.com/vtapi/v2/file/scan"
                \/ obj.kind = "Domain" /\ requests[i].url = "https://www.virustotal.com/vtapi/v2/url/scan"

C7_Witness ==
    /\ obj.kind = "IP"
    /\ response_code = PyInt(0)
    /\ uploaderCalls = 1
    /\ Ended

(***************************************************************************)
(* C8.  The Fetcher gives the decoded report for every well-formed JSON    *)
(* answer and signals failure only when the request fails or the answer is *)
(* no JSON; when the first fetch signals failure the run aborts, with no   *)
(* retry, no upload, no sleep and no result.                               *)
(***************************************************************************)
C8_FetchFailureOnlyOnNetworkError ==
    /\ (pc = "fetch" /\ AbortedWith("Getting sample data from VT failed!") =>
            response_dict = PyFalse)
    /\ (pc \notin {"run", "fetch"} \/ Ended) /\ FetchCount = 1 /\ response_dict = PyFalse =>
            /\ AbortedWith("Getting sample data from VT failed!")
            /\ uploaderCalls = 0
            /\ sleeps = <<>>
            /\ results = <<>>

(***************************************************************************)
(* C9.  When vt_api_key is absent from the configuration or empty the run  *)
(* aborts before any network call: no fetch, no upload, no pcap request,   *)
(* no host-platform call and no result.                                    *)
(***************************************************************************)
C9_NoKeyNoNetwork ==
    ("vt_api_key" \notin DOMAIN config.v \/ config.v["vt_api_key"] = PyStr("")) =>
        /\ requests = <<>>
        /\ uploaderCalls = 0
        /\ NoCollaboratorCall
        /\ results = <<>>
        /\ pc = "run"
        /\ (Ended => AbortedWith("No valid VT key found") /\ log = <<Msg("error", "No valid VT key found")>>)

C9_Witness ==
    /\ "vt_api_key" \notin DOMAIN config.v
    /\ Ended
    /\ log = <<Msg("error", "No valid VT key found")>>

(***************************************************************************)
(* C10.  For every ready report and every section or field that is absent, *)
(* null or empty in it, the processing never raises, and each missing or   *)
(* empty section gives a soft-failure message (so the status of the call   *)
(* is not a success), here for the network mapping of the behaviour block. *)
(***************************************************************************)
BehaviourOf(report) ==
    IF IsDict(AdditionalInfoOf(report))
    THEN Get(AdditionalInfoOf(report), "behaviour-v1", EmptyDict)
    ELSE EmptyDict

C10_MissingSectionsNeverRaise ==
    /\ ~(/\ obj.kind = "Sample"
         /\ outcome = "raised"
         /\ pc \in NormalizerPcs
         /\ exc # NoProcessDomain)
    /\ (/\ pc = "private_behaviour"
        /\ outcome = "returned"
        /\ Truthy(BehaviourOf(response_dict))
        /\ ~Truthy(Get(BehaviourOf(response_dict), "network", EmptyDict))
        => ~response.success)

(***************************************************************************)
(* C12.  For every Domain report whose section entries are mappings, each  *)
(* entry of a non-empty section gives exactly one result under the title   *)
(* of its section, with the entry's fields copied and defaults for absent  *)
(* ones; each empty or missing section gives one message and no result;    *)
(* the call reports success only when no section was empty or missing, and *)
(* otherwise its message is recorded while the results stay.               *)
(***************************************************************************)
DomainSections ==
    <<"detected_urls", "resolutions", "categories", "detected_communicating_samples",
      "undetected_communicating_samples", "detected_downloaded_samples",
      "undetected_downloaded_samples">>

FieldOr(entry, k, default) == IF k \in DOMAIN entry.v THEN entry.v[k] ELSE default

SampleDetail(entry) ==
    PyDict([date |-> FieldOr(entry, "date", PyStr("")),
            total |-> FieldOr(entry, "total", PyInt(0)),
            positives |-> FieldOr(entry, "positives", PyInt(0))])

\* the result the claim gives an entry of section k
DomainFinding(k, entry) ==
    CASE k = "detected_urls" ->
            [subtype |-> "URLs", result |-> FieldOr(entry, "url", PyStr("")),
             data |-> PyDict([scan_date |-> FieldOr(entry, "scan_date", PyStr("")),
                              total |-> FieldOr(entry, "total", PyInt(0)),
                              positives |-> FieldOr(entry, "positives", PyInt(0))])]
      [] k = "resolutions" ->
            [subtype |-> "A Records", result |-> FieldOr(entry, "ip_address", PyStr("")),
             data |-> PyDict([last_resolved |-> FieldOr(entry, "last_resolved", PyStr(""))])]
      [] k = "categories" ->
            [subtype |-> "Categories", result |-> entry, data |-> EmptyDict]
      [] k = "detected_communicating_samples" ->
            [subtype |-> "Detected Communicating Samples",
             result |-> FieldOr(entry, "sha256", PyInt(0)), data |-> SampleDetail(entry)]
      [] k = "undetected_communicating_samples" ->
            [subtype |-> "Undetected Communicating Samples",
             result |-> FieldOr(entry, "sha256", PyInt(0)), data |-> SampleDetail(entry)]
      [] k = "detected_downloaded_samples" ->
            [subtype |-> "Detected Downloaded Samples",
             result |-> FieldOr(entry, "sha256", PyInt(0)), data |-> SampleDetail(entry)]
      [] k = "undetected_downloaded_samples" ->
            [subtype |-> "Undetected Downloaded Samples",
             result |-> FieldOr(entry, "sha256", PyInt(0)), data |-> SampleDetail(entry)]

\* the message the code has for an empty or missing section k
DomainMissing(k) ==
    CASE k = "detected_urls" -> "URL information not included in VT response."
      [] k = "resolutions" -> "Resolution information not included in VT response."
      [] k = "categories" -> "Category information not included in VT response."
      [] k = "detected_communicating_samples" ->
            "Detected communicating sample information not included in VT response."
      [] k = "undetected_communicating_samples" ->
            "Undetected communicating sample information not included in VT response."
      [] k = "detected_downloaded_samples" -> "Downloaded sample information not included in VT response."
      [] k = "undetected_downloaded_samples" ->
            "Undetected domain sample information not included in VT response."

\* the entries of section k of a report: none when it is missing, null or empty
SectionEntries(report, k) ==
    IF k \in DOMAIN report.v /\ report.v[k].t = "list" THEN report.v[k].v ELSE <<>>

\* every entry of the sections whose entries have fields is a mapping
EntriesAreMappings(report) ==
    \A i \in 1..Len(DomainSections) :
        DomainSections[i] # "categories" =>
            \A j \in 1..Len(SectionEntries(report, DomainSections[i])) :
                SectionEntries(report, DomainSections[i])[j].t = "dict"

RECURSIVE DomainFindingsFrom(_, _)
DomainFindingsFrom(report, i) ==
    IF i > Len(DomainSections) THEN <<>>
    ELSE LET k == DomainSections[i]
             entries == SectionEntries(report, k)
         IN [j \in 1..Len(entries) |-> DomainFinding(k, entries[j])]
            \o DomainFindingsFrom(report, i + 1)

RECURSIVE DomainMessagesFrom(_, _)
DomainMessagesFrom(report, i) ==
    IF i > Len(DomainSections) THEN <<>>
    ELSE (IF SectionEntries(report, DomainSections[i]) = <<>>
          THEN <<DomainMissing(DomainSections[i])>> ELSE <<>>)
         \o DomainMessagesFrom(report, i + 1)

RECURSIVE JoinedLines(_)
JoinedLines(lines) ==
    IF Len(lines) = 1 THEN lines[1]
    ELSE lines[1] \o "\n" \o JoinedLines(Tail(lines))

DomainRunEnded == obj.kind = "Domain" /\ pc = "process" /\ Ended

\* the messages recorded after the polling
ProcessingLog ==
    SelectSeq(log, LAMBDA m : m # Msg("info", WaitingMsg(WaitForProcessing(config))))

C12_DomainNormalization ==
    (DomainRunEnded /\ EntriesAreMappings(response_dict)) =>
        /\ outcome = "returned"
        /\ results = DomainFindingsFrom(response_dict, 1)
        /\ LET missing == DomainMessagesFrom(response_dict, 1)
           IN IF missing = <<>>
              THEN /\ response = [success |-> TRUE, message |-> "Processed public domain information."]
                   /\ ProcessingLog = <<>>
              ELSE /\ response = [success |-> FALSE, message |-> JoinedLines(missing)]
                   /\ ProcessingLog = <<Msg("info", JoinedLines(missing))>>

C12_Witness ==
    /\ DomainRunEnded
    /\ EntriesAreMappings(response_dict)
    /\ SectionEntries(response_dict, "resolutions") = <<>>
    /\ Len(SectionEntries(response_dict, "detected_urls")) > 0
    /\ HasResult("URLs")
    /\ HasResult("Categories")
    /\ ~HasResult("A Records")
    /\ ~response.success

(***************************************************************************)
(* C13.  In a run on a Sample whose stored sha1 or sha256 differs from the *)
(* ready report's, the step that processes the hashes sets both fields to  *)
(* the report's values and saves the object exactly once; when both match  *)
(* it does not save; no other step saves, so no run saves the object more  *)
(* than once.                                                              *)
(***************************************************************************)
HashesProcessed == obj.kind = "Sample" /\ pc = "process" /\ pc' = "public_sample"

C13_SavedAtMostOnce ==
    /\ [](saves <= 1)
    /\ [][IF HashesProcessed
          THEN /\ obj'.sha1 = response_dict.v["sha1"]
               /\ obj'.sha256 = response_dict.v["sha256"]
               /\ saves' = IF obj.sha1 # response_dict.v["sha1"] \/ obj.sha256 # response_dict.v["sha256"]
                           THEN saves + 1 ELSE saves
          ELSE saves' = saves]_vars

C13_Witness ==
    /\ obj.kind = "Sample"
    /\ outcome = "returned"
    /\ NormalizerRan
    /\ saves = 1
    /\ obj.sha1 = ReportSha1
    /\ obj.sha256 = ReportSha256
    /\ HasResult("VirusTotal Behaviour DNS")

(***************************************************************************)
(* C14.  For every Sample report whose positives and total are numbers or  *)
(* absent, the 'stats' result's label is "<positives> / <total>", each     *)
(* defaulting to 0 when the key is absent (3 and 57 give "3 / 57", both    *)
(* absent give "0 / 0"), and its detail carries the same two numbers and   *)
(* the scan date of the report unchanged.                                  *)
(***************************************************************************)
PublicSampleRan ==
    /\ obj.kind = "Sample"
    /\ \/ pc \in {"private_metadata", "private_vtmetadata", "private_behaviour",
                  "get_pcap", "process_pcap"}
       \/ pc = "public_sample" /\ Ended

StatsResults == SelectSeq(results, LAMBDA r : r.subtype = "stats")

C14_StatsLabel ==
    LET positives == FieldOr(response_dict, "positives", PyInt(0))
        total == FieldOr(response_dict, "total", PyInt(0))
    IN (PublicSampleRan /\ positives.t = "int" /\ total.t = "int") =>
        /\ Len(StatsResults) = 1
        /\ results[1] = StatsResults[1]
        /\ StatsResults[1].result = PyStr(ToString(positives.v) \o " / " \o ToString(total.v))
        /\ StatsResults[1].data =
                PyDict([scan_date |-> FieldOr(response_dict, "scan_date", PyStr("")),
                        positives |-> positives,
                        total |-> total])
        /\ (positives = PyInt(3) /\ total = PyInt(57) => StatsResults[1].result = PyStr("3 / 57"))
        /\ (positives = PyInt(0) /\ total = PyInt(0) => StatsResults[1].result = PyStr("0 / 0"))

C14_Witness ==
    /\ PublicSampleRan
    /\ "positives" \notin DOMAIN response_dict.v
    /\ "total" \notin DOMAIN response_dict.v
    /\ Len(StatsResults) = 1
    /\ StatsResults[1].result = PyStr("0 / 0")
    /\ StatsResults[1].data.v["scan_date"] = PyStr("2015-01-01 00:00:00")

(***************************************************************************)
(* C15.  The pcap is handed to handle_pcap_file (and the 'pcap added'      *)
(* result added) only for a Sample with the private key and vt_add_pcap    *)
(* both set and a pcap returned by get_pcap; on a network error, a JSON or *)
(* other content type, or a missing content-type header, nothing is        *)
(* ingested and the run goes on without aborting, keeping its results.     *)
(***************************************************************************)
PcapIngested == HasResult("pcap added") \/ collab # <<>>

C15_PcapStepNeverAborts ==
    /\ (PcapIngested =>
            /\ obj.kind = "Sample"
            /\ Truthy(Get(config, "vt_api_key_private", PyFalse))
            /\ Truthy(Get(config, "vt_add_pcap", PyFalse))
            /\ Truthy(pcap))
    /\ (pc = "get_pcap" /\ Ended =>
            /\ outcome = "returned"
            /\ ~PcapIngested
            /\ HasResult("stats"))

(***************************************************************************)
(* C16.  While the behaviour block of a Sample is processed, each DNS      *)
(* entry with a hostname has the domain upserted and, on success, related  *)
(* to the sample; a failure there is recorded as a message and never       *)
(* propagated, so the remaining entries and sections are still processed.  *)
(***************************************************************************)
\* the hostnames of the DNS results added so far (str(None) for an entry without one)
DnsResultHostnames ==
    {results[i].result.v : i \in {j \in 1..Len(results) : results[j].subtype = "VirusTotal Behaviour DNS"}}
    \ {"None", ""}

UpsertedDomains == {collab[i].domain : i \in {j \in 1..Len(collab) : collab[j].handler = "upsert_domain"}}

C16_DnsUpsertNeverPropagates ==
    /\ ~(pc = "private_behaviour" /\ outcome = "raised" /\ exc = NoProcessDomain)
    /\ (obj.kind = "Sample" /\ pc = "private_behaviour" /\ Ended => DnsResultHostnames \subseteq UpsertedDomains)

(***************************************************************************)
(* C17.  Every report request goes to the URL the configuration holds for  *)
(* the kind of the object (vt_query_url for a Sample, vt_domain_url for a  *)
(* Domain, vt_ip_url for an IP), on the first fetch and on every re-fetch. *)
(***************************************************************************)
ConfiguredUrl(kind) ==
    CASE kind = "Sample" -> Get(config, "vt_query_url", PyStr("")).v
      [] kind = "Domain" -> Get(config, "vt_domain_url", PyStr("")).v
      [] kind = "IP" -> Get(config, "vt_ip_url", PyStr("")).v

C17_FetchUsesConfiguredUrl ==
    \A i \in 1..Len(requests) :
        requests[i].role = "report" => requests[i].url = ConfiguredUrl(obj.kind)

(***************************************************************************)
(* C18.  The results are ordered and append-only.                          *)
(***************************************************************************)
\* the place of a result's section in the processing order of its kind
SectionRank(subtype) ==
    CASE subtype \in {"stats", "URLs", "Detected URLs"} -> 1
      [] subtype \in {"permalink", "A Records", "Resolutions"} -> 2
      [] subtype \in {"av result", "Categories"} -> 3
      [] subtype \in {"Developer Metadata", "Detected Communicating Samples"} -> 4
      [] subtype \in {"Signature Information", "Undetected Communicating Samples"} -> 5
      [] subtype \in {"Language Information", "Detected Downloaded Samples"} -> 6
      [] subtype \in {"VirusTotal Timestamps", "Undetected Downloaded Samples"} -> 7
      [] subtype = "VirusTotal Submission Names" -> 8
      [] subtype = "VirusTotal Reputation" -> 9
      [] subtype = "VirusTotal Behaviour DNS" -> 10
      [] subtype = "VirusTotal Behaviour HTTP" -> 11
      [] subtype = "VirusTotal Behaviour TCP" -> 12
      [] subtype = "VirusTotal Behaviour UDP" -> 13
      [] subtype = "VirusTotal Behaviour Flag" -> 14
      [] subtype = "Virus Total Hooking Detected" -> 15
      [] subtype = "pcap added" -> 16
      [] OTHER -> 0

SectionsInProcessingOrder ==
    \A i, j \in 1..Len(results) :
        i < j => /\ SectionRank(results[i].subtype) > 0
                 /\ SectionRank(results[i].subtype) <= SectionRank(results[j].subtype)

SafeGet(d, k) == IF d.t = "dict" /\ k \in DOMAIN d.v THEN d.v[k] ELSE PyNone
Entries(x) == IF x.t = "list" THEN x.v ELSE <<>>
IsPrefix(a, b) == Len(a) <= Len(b) /\ a = SubSeq(b, 1, Len(a))

\* the labels of the results of a section, in the order they were added
LabelsOf(subtype) ==
    LET sel == SelectSeq(results, LAMBDA r : r.subtype = subtype)
    IN [i \in 1..Len(sel) |-> sel[i].result]

\* the labels of the entries of a list, in the order of the list
EntryLabels(entries, key, default) ==
    [i \in 1..Len(entries) |->
        IF key = "" THEN entries[i]
        ELSE IF entries[i].t = "dict" THEN FieldOr(entries[i], key, default)
        ELSE PyNone]

NetworkOf(report) == SafeGet(SafeGet(SafeGet(report, "additional_info"), "behaviour-v1"), "network")

\* the list sections of a report: title, entries, key of the label and its default
ListSections(kind, report) ==
    IF kind = "Sample"
    THEN {<<"VirusTotal Submission Names", Entries(SafeGet(report, "submission_names")), "", PyNone>>,
          <<"VirusTotal Behaviour HTTP", Entries(SafeGet(NetworkOf(report), "http")), "url", PyStr("")>>,
          <<"VirusTotal Behaviour TCP", Entries(SafeGet(NetworkOf(report), "tcp")), "", PyNone>>,
          <<"VirusTotal Behaviour UDP", Entries(SafeGet(NetworkOf(report), "udp")), "", PyNone>>,
          <<"VirusTotal Behaviour Flag",
            Entries(SafeGet(SafeGet(SafeGet(report, "additional_info"), "behaviour-v1"), "extra")),
            "", PyNone>>,
          <<"Virus Total Hooking Detected",
            Entries(SafeGet(SafeGet(SafeGet(report, "additional_info"), "behaviour-v1"), "hooking")),
            "type", PyStr("")>>}
    ELSE IF kind = "Domain"
    THEN {<<"URLs", Entries(SafeGet(report, "detected_urls")), "url", PyStr("")>>,
          <<"A Records", Entries(SafeGet(report, "resolutions")), "ip_address", PyStr("")>>,
          <<"Categories", Entries(SafeGet(report, "categories")), "", PyNone>>,
          <<"Detected Communicating Samples",
            Entries(SafeGet(report, "detected_communicating_samples")), "sha256", PyInt(0)>>}
    ELSE {<<"Detected URLs", Entries(SafeGet(report, "detected_urls")), "url", PyStr("")>>,
          <<"Resolutions", Entries(SafeGet(report, "resolutions")), "hostname", PyStr("")>>,
          <<"Detected Communicating Samples",
            Entries(SafeGet(report, "detected_communicating_samples")), "sha256", PyStr("")>>}

\* the results of every list section follow the order of the list's entries
ListSectionsInEntryOrder ==
    results # <<>> =>
        \A sec \in ListSections(obj.kind, response_dict) :
            IsPrefix(LabelsOf(sec[1]), EntryLabels(sec[2], sec[3], sec[4]))

\* the engines of the per-engine results, in the order they were added
EnginesOfResults ==
    LET sel == SelectSeq(results, LAMBDA r : r.subtype = "av result")
    IN [i \in 1..Len(sel) |-> sel[i].data.v["engine"].v]

\* the keys of the scans mapping of a report
ScanKeys(report) ==
    IF SafeGet(report, "scans").t = "dict" THEN DOMAIN SafeGet(report, "scans").v ELSE {}

\* one per-engine result for each enumerated key of the scans mapping
EnginesOncePerKey ==
    /\ \A i, j \in 1..Len(EnginesOfResults) : i # j => EnginesOfResults[i] # EnginesOfResults[j]
    /\ \A i \in 1..Len(EnginesOfResults) :
            EnginesOfResults[i] \in ScanKeys(response_dict)

\* the order in which the text of the report lists the engines of its scans
EnginesInReportText == <<"Engine1", "Engine2">>

AppendOnly == Len(results') >= Len(results) /\ SubSeq(results', 1, Len(results)) = results

(***************************************************************************)
(* C18 as stated: the results are append-only, the sections appear in the  *)
(* fixed processing order, and the results of every section, the           *)
(* per-engine results included, appear in the order of their entries in    *)
(* the report.                                                             *)
(***************************************************************************)
C18_FindingsInReportOrder ==
    /\ SectionsInProcessingOrder
    /\ ListSectionsInEntryOrder
    /\ \E n \in 0..Len(EnginesInReportText) :
            EnginesOfResults = SelectSeq(SubSeq(EnginesInReportText, 1, n),
                                         LAMBDA e : e \in ScanKeys(response_dict))

(***************************************************************************)
(* C18 as amended: the results are append-only (no step removes, reorders  *)
(* or changes a result already added), the sections appear in the fixed    *)
(* processing order, the results of a list section appear in the order of  *)
(* the list's entries, and the per-engine results appear once per key of   *)
(* the scans mapping, in the order the mapping enumerates its keys.        *)
(***************************************************************************)
C18_AppendOnlyOrdered ==
    /\ [](SectionsInProcessingOrder /\ ListSectionsInEntryOrder /\ EnginesOncePerKey)
    /\ [][AppendOnly]_vars

C18_Witness ==
    /\ obj.kind = "Sample"
    /\ outcome = "returned"
    /\ Len(results) > 0
    /\ results[Len(results)].subtype = "pcap added"
    /\ EnginesOfResults = <<"Engine2", "Engine1">>
    /\ Len(LabelsOf("VirusTotal Submission Names")) = MaxEntries
    /\ HasResult("VirusTotal Behaviour DNS")

(***************************************************************************)
(* C19.  In every reachable state a non-empty result log (and any          *)
(* processing of a report, save or collaborator call) implies that a       *)
(* report with response code 1 has been fetched; every abort (no key,      *)
(* failed fetch, unknown without upload, another response code, failed     *)
(* upload, re-fetch not ready) comes before the first result, so a run     *)
(* that ends in an abort has no result and made no collaborator call.      *)
(***************************************************************************)
ReadyFetched ==
    /\ response_dict.t = "dict"
    /\ "response_code" \in DOMAIN response_dict.v
    /\ response_dict.v["response_code"] = PyInt(1)

C19_ResultsImplyReadyReport ==
    /\ (results # <<>> \/ pc \notin PollingPcs \/ ~NoCollaboratorCall) => ReadyFetched
    /\ Aborted => results = <<>> /\ NoCollaboratorCall
    /\ (outcome = "returned" /\ ~ReadyFetched) => Aborted

C19_Witness ==
    /\ results # <<>>
    /\ response_code = PyInt(-2)
    /\ ReadyFetched
    /\ saves = 1

(***************************************************************************)
(* C20.  Every run terminates when each of its calls returns (a running    *)
(* run can always take its next step, and every step moves it forward or   *)
(* ends it); along a run there is at most one Uploader call and at most    *)
(* one sleep; the sleep comes only after a first report with response code *)
(* -2, or after a successful upload that follows a first report with code  *)
(* 0 (also for a report without response code), never after a failed       *)
(* fetch, a failed upload or a ready report.                               *)
(***************************************************************************)
PcRank(p) ==
    CASE p = "run" -> 0
      [] p = "fetch" -> 1
      [] p = "upload" -> 2
      [] p = "fetch_after_upload" -> 3
      [] p = "refetch" -> 4
      [] p = "process" -> 5
      [] p = "public_sample" -> 6
      [] p = "private_metadata" -> 7
      [] p = "private_vtmetadata" -> 8
      [] p = "private_behaviour" -> 9
      [] p = "get_pcap" -> 10
      [] p = "process_pcap" -> 11

SleepOnlyWhenQueuedOrUploaded ==
    sleeps # <<>> =>
        /\ response_dict # PyFalse \/ FetchCount > 1
        /\ \/ response_code = PyInt(-2) /\ uploaderCalls = 0
           \/ /\ response_code = PyInt(0)
              /\ uploaderCalls = 1
              /\ UploadCount = 1
              /\ pc # "upload"

\* a running run has a next step: the step at its position applies to the
\* object and every answer the step waits for exists
CanStep ==
    CASE pc \in {"fetch", "fetch_after_upload", "refetch"} -> FetchBodies(obj.kind) # {}
      [] pc = "upload" -> UploadBodies # {}
      [] pc = "process" -> obj.kind \in SupportedTypes
      [] pc = "public_sample" -> KeyOrders(Get(response_dict, "scans", EmptyList)) # {}
      [] pc = "private_metadata" ->
            KeyOrders(SafeGet(SafeGet(response_dict, "additional_info"), "pe-resource-langs")) # {}
      [] pc = "get_pcap" -> PcapBodies # {}
      [] pc \in {"run", "private_vtmetadata", "private_behaviour", "process_pcap"} -> TRUE
      [] OTHER -> FALSE

C20_TerminatesOneUploadOneSleep ==
    /\ []((outcome = "running" => CanStep)
          /\ uploaderCalls <= 1
          /\ Len(sleeps) <= 1
          /\ SleepOnlyWhenQueuedOrUploaded)
    /\ [][\/ outcome' = "running" /\ PcRank(pc') > PcRank(pc)
          \/ outcome = "running" /\ outcome' # "running" /\ pc' = pc]_vars

C20_Witness ==
    /\ response_code = PyInt(0)
    /\ uploaderCalls = 1
    /\ Len(sleeps) = 1
    /\ outcome = "returned"
    /\ HasResult("URLs")

=============================================================================
